---- MODULE Spec2Model ----
(***************************************************************************)
(* The fixed-layout mainframe record codec of The-Green-Zombies:           *)
(* generator.py (pack_comp3, create_ebcdic_record, the file-writing CLI),  *)
(* reader.py (unpack_comp3, parse_mainframe_file) and app.py               *)
(* (dataframe_to_dat), and the workflow of app.py around it: upload,       *)
(* analysis, sign-off, deletion with its on-chain proof, start over.       *)
(*                                                                         *)
(* A Python str is a sequence of code points, a bytes object a sequence of *)
(* numbers 0..255.  A record is [id, name, amount, text].                  *)
(***************************************************************************)
EXTENDS Integers, Sequences, FiniteSets, TLC

VARIABLES
    \* --- pack_comp3 / unpack_comp3 called on their own ---
    apc,        \* "start" -> "packed" -> "unpacked"
    number,     \* pack_comp3's argument (every caller leaves width at its default)
    packed,     \* the bytes pack_comp3 returned
    val,        \* what unpack_comp3 made of them
    \* --- create_ebcdic_record and the reader's per-chunk decode of one record ---
    spc,        \* "start" -> "encoded" | "raised" ; "encoded" -> "decoded"
    rec,        \* the record handed to create_ebcdic_record
    out,        \* the bytes it returned
    idField,    \* its first operand, codecs.encode(f"{rec_id:<10}", "cp037")
    dec,        \* the record the reader decodes from the first rec_len bytes
    \* --- a stream: a writer loop, the file, parse_mainframe_file ---
    writer,     \* "dataframe_to_dat" (app.py) or "__main__" (generator.py)
    wpc,        \* "writing" -> "returned" | "raised"
    rows,       \* the records the writer was given so far, in order
    buf,        \* dataframe_to_dat's bytearray
    ret,        \* what dataframe_to_dat returned: <<bytes>>, or <<>> when nothing
    file,       \* the content of the .dat file on disk
    damage,     \* what happened to the file before it is read
    rpc,        \* parse_mainframe_file: "idle" -> "reading" -> "done"
    pos,        \* the reader's file offset
    records,    \* parse_mainframe_file's records list
    diag,       \* how many times it printed "bad record, skipping"
    \* --- one browser session of app.py: st.session_state and its widgets ---
    uploaded_file,     \* the file_uploader: 0 when empty, else which of Files
    uploaded_file_id,  \* st.session_state.uploaded_file_id
    data,              \* st.session_state.data: None, or Some(the frame's rows)
    analysis_done,     \* st.session_state.analysis_done
    tx_hash,           \* st.session_state.tx_hash: None, or Some(the transaction sent)
    approved,          \* the sign-off checkbox
    verdicts,          \* what the classifier and the PII analyzer answered, by row
    last,              \* the latest operation of the session and how it went
    \* --- two sessions in the upload step, run by the same server process ---
    sessions,          \* per session: where it is, its upload, the frame it built
    \* --- the server's working directory ---
    temp_upload        \* the content of temp_upload.dat

amountVars == <<apc, number, packed, val>>
recordVars == <<spc, rec, out, idField, dec>>
streamVars == <<writer, wpc, rows, buf, ret, file, damage, rpc, pos, records, diag>>
appVars == <<uploaded_file, uploaded_file_id, data, analysis_done, tx_hash, approved,
             verdicts, last>>
uploadVars == <<sessions>>
vars == <<amountVars, recordVars, streamVars, appVars, uploadVars, temp_upload>>

Min(a, b) == IF a < b THEN a ELSE b

(***************************************************************************)
(* Python primitives the codec is written with.                            *)
(***************************************************************************)

\* s[a:b] for 0 <= a <= b: Python clamps a slice to the sequence.
Slice(s, a, b) == SubSeq(s, a + 1, Min(b, Len(s)))

Repeat(c, n) == [i \in 1..n |-> c]

\* The charmap tables of the cp037 codec, as codecs.encode / codecs.decode use
\* them: decoding_table[b + 1] is the code point of byte b, encoding_table[c + 1]
\* the byte of code point c.  cp037 maps the 256 bytes onto the code points
\* 0..255; no other character has a byte.
decoding_table ==
  <<
      0,   1,   2,   3, 156,   9, 134, 127, 151, 141, 142,  11,  12,  13,  14,  15,
     16,  17,  18,  19, 157, 133,   8, 135,  24,  25, 146, 143,  28,  29,  30,  31,
    128, 129, 130, 131, 132,  10,  23,  27, 136, 137, 138, 139, 140,   5,   6,   7,
    144, 145,  22, 147, 148, 149, 150,   4, 152, 153, 154, 155,  20,  21, 158,  26,
     32, 160, 226, 228, 224, 225, 227, 229, 231, 241, 162,  46,  60,  40,  43, 124,
     38, 233, 234, 235, 232, 237, 238, 239, 236, 223,  33,  36,  42,  41,  59, 172,
     45,  47, 194, 196, 192, 193, 195, 197, 199, 209, 166,  44,  37,  95,  62,  63,
    248, 201, 202, 203, 200, 205, 206, 207, 204,  96,  58,  35,  64,  39,  61,  34,
    216,  97,  98,  99, 100, 101, 102, 103, 104, 105, 171, 187, 240, 253, 254, 177,
    176, 106, 107, 108, 109, 110, 111, 112, 113, 114, 170, 186, 230, 184, 198, 164,
    181, 126, 115, 116, 117, 118, 119, 120, 121, 122, 161, 191, 208, 221, 222, 174,
     94, 163, 165, 183, 169, 167, 182, 188, 189, 190,  91,  93, 175, 168, 180, 215,
    123,  65,  66,  67,  68,  69,  70,  71,  72,  73, 173, 244, 246, 242, 243, 245,
    125,  74,  75,  76,  77,  78,  79,  80,  81,  82, 185, 251, 252, 249, 250, 255,
     92, 247,  83,  84,  85,  86,  87,  88,  89,  90, 178, 212, 214, 210, 211, 213,
     48,  49,  50,  51,  52,  53,  54,  55,  56,  57, 179, 219, 220, 217, 218, 159 >>

encoding_table ==
  <<
      0,   1,   2,   3,  55,  45,  46,  47,  22,   5,  37,  11,  12,  13,  14,  15,
     16,  17,  18,  19,  60,  61,  50,  38,  24,  25,  63,  39,  28,  29,  30,  31,
     64,  90, 127, 123,  91, 108,  80, 125,  77,  93,  92,  78, 107,  96,  75,  97,
    240, 241, 242, 243, 244, 245, 246, 247, 248, 249, 122,  94,  76, 126, 110, 111,
    124, 193, 194, 195, 196, 197, 198, 199, 200, 201, 209, 210, 211, 212, 213, 214,
    215, 216, 217, 226, 227, 228, 229, 230, 231, 232, 233, 186, 224, 187, 176, 109,
    121, 129, 130, 131, 132, 133, 134, 135, 136, 137, 145, 146, 147, 148, 149, 150,
    151, 152, 153, 162, 163, 164, 165, 166, 167, 168, 169, 192,  79, 208, 161,   7,
     32,  33,  34,  35,  36,  21,   6,  23,  40,  41,  42,  43,  44,   9,  10,  27,
     48,  49,  26,  51,  52,  53,  54,   8,  56,  57,  58,  59,   4,  20,  62, 255,
     65, 170,  74, 177, 159, 178, 106, 181, 189, 180, 154, 138,  95, 202, 175, 188,
    144, 143, 234, 250, 190, 160, 182, 179, 157, 218, 155, 139, 183, 184, 185, 171,
    100, 101,  98, 102,  99, 103, 158, 104, 116, 113, 114, 115, 120, 117, 118, 119,
    172, 105, 237, 238, 235, 239, 236, 191, 128, 253, 254, 251, 252, 173, 174,  89,
     68,  69,  66,  70,  67,  71, 156,  72,  84,  81,  82,  83,  88,  85,  86,  87,
    140,  73, 205, 206, 203, 207, 204, 225, 112, 221, 222, 219, 220, 141, 142, 223 >>

\* codecs.encode(s, "cp037") raises UnicodeEncodeError on a character that
\* has no byte in the table.
Encodable(s) == \A i \in 1..Len(s) : s[i] < Len(encoding_table)

encode_cp037(s) == [i \in 1..Len(s) |-> encoding_table[s[i] + 1]]

decode_cp037(b) == [i \in 1..Len(b) |-> decoding_table[b[i] + 1]]

\* str.isspace() for the code points 0..255
IsSpace(c) == c \in {9, 10, 11, 12, 13, 28, 29, 30, 31, 32, 133, 160}

\* str.strip(): drops leading and trailing whitespace
RECURSIVE FirstKept(_, _)
FirstKept(s, i) == IF i > Len(s) \/ ~IsSpace(s[i]) THEN i ELSE FirstKept(s, i + 1)

RECURSIVE LastKept(_, _)
LastKept(s, i) == IF i = 0 \/ ~IsSpace(s[i]) THEN i ELSE LastKept(s, i - 1)

strip(s) == SubSeq(s, FirstKept(s, 1), LastKept(s, Len(s)))

\* f"{s:<w}": pads on the right with spaces up to w characters; a longer
\* value is kept whole.
format_left(s, w) ==
    IF Len(s) >= w THEN s ELSE s \o Repeat(32, w - Len(s))

\* str(n) for n >= 0, as a sequence of digits 0..9
RECURSIVE str(_)
str(n) == IF n < 10 THEN <<n>> ELSE Append(str(n \div 10), n % 10)

abs(n) == IF n < 0 THEN -n ELSE n

\* str.zfill(w): pads on the left with zeros up to w digits, never cuts
zfill(d, w) == IF Len(d) >= w THEN d ELSE Repeat(0, w - Len(d)) \o d

\* int(digits), for a string of decimal digits
RECURSIVE int(_)
int(d) == IF d = <<>> THEN 0 ELSE 10 * int(SubSeq(d, 1, Len(d) - 1)) + d[Len(d)]

\* bytes.hex(): two nibbles a byte, high nibble first
hex(raw) ==
    [i \in 1..(2 * Len(raw)) |->
        IF i % 2 = 1 THEN raw[(i + 1) \div 2] \div 16 ELSE raw[i \div 2] % 16]

(***************************************************************************)
(* generator.py: pack_comp3, create_ebcdic_record                          *)
(***************************************************************************)

DefaultWidth == 3
IdWidth == 10
NameWidth == 20
LogWidth == 50

\* pack_comp3 with the two digits of each pair the wrong way round
\* (int(digits[i + 1] + digits[i], 16))
pack_comp3_swapped(n, w) ==
    LET digits == zfill(str(abs(n)), w * 2 - 1)
        sign   == IF n >= 0 THEN 12 ELSE 13
        pairs  == [j \in 1..(Len(digits) \div 2) |->
                      16 * digits[2 * j] + digits[2 * j - 1]]
    IN  Append(pairs, 16 * digits[Len(digits)] + sign)

pack_comp3(n, w) ==
    LET digits == zfill(str(abs(n)), w * 2 - 1)
        sign   == IF n >= 0 THEN 12 ELSE 13
        pairs  == [j \in 1..(Len(digits) \div 2) |->
                      16 * digits[2 * j - 1] + digits[2 * j]]
    IN  Append(pairs, 16 * digits[Len(digits)] + sign)

\* The only way create_ebcdic_record raises on a str/int record: one of the
\* three codecs.encode calls meets a character cp037 has no byte for.
RecordEncodable(r) == Encodable(r.id) /\ Encodable(r.name) /\ Encodable(r.text)

encode_field(s, w) == encode_cp037(format_left(s, w))

create_ebcdic_record(rec_id, name, amount, log_text) ==
       encode_field(rec_id, IdWidth)
    \o encode_field(name, NameWidth)
    \o pack_comp3(amount, DefaultWidth)
    \o encode_field(log_text, LogWidth)

(***************************************************************************)
(* reader.py: unpack_comp3 and the body of parse_mainframe_file's loop     *)
(***************************************************************************)

rec_len == 83

IsDigit(c) == c <= 9

\* h[-1] raises IndexError on an empty field; nothing else in it can raise.
unpack_raises(raw) == Len(raw) = 0

\* unpack_comp3 with the sign test gone wrong (the sign nibble compared
\* without .upper(), so 'd' never equals 'D')
unpack_comp3_unsigned(raw) ==
    LET h      == hex(raw)
        digits == SelectSeq(SubSeq(h, 1, Len(h) - 1), IsDigit)
    IN  IF digits # <<>> THEN int(digits) ELSE 0

unpack_comp3(raw) ==
    LET h      == hex(raw)
        sign   == h[Len(h)]
        digits == SelectSeq(SubSeq(h, 1, Len(h) - 1), IsDigit)
        v      == IF digits # <<>> THEN int(digits) ELSE 0
    IN  IF sign = 13 THEN -v ELSE v

\* The try block of the loop: the four slices of the chunk, decoded.
decode_raises(chunk) == unpack_raises(Slice(chunk, 30, 33))

\* the try block with the name slice one byte short (chunk[10:29])
decode_chunk_short(chunk) ==
    [id     |-> strip(decode_cp037(Slice(chunk, 0, 10))),
     name   |-> strip(decode_cp037(Slice(chunk, 10, 29))),
     amount |-> unpack_comp3(Slice(chunk, 30, 33)),
     text   |-> strip(decode_cp037(Slice(chunk, 33, 83)))]

decode_chunk(chunk) ==
    [id     |-> strip(decode_cp037(Slice(chunk, 0, 10))),
     name   |-> strip(decode_cp037(Slice(chunk, 10, 30))),
     amount |-> unpack_comp3(Slice(chunk, 30, 33)),
     text   |-> strip(decode_cp037(Slice(chunk, 33, 83)))]

(***************************************************************************)
(* The amount codec on its own: pack_comp3(number), then                   *)
(* unpack_comp3 of the bytes it returned.                                  *)
(***************************************************************************)

MaxOver == 1

\* 10^(2w-1): the first magnitude the 2w-1 digit positions cannot hold
Limit(w) == 10 ^ (2 * w - 1)

\* every amount the default width can hold, and the first ones it cannot
Numbers == (-(Limit(DefaultWidth) + MaxOver))..(Limit(DefaultWidth) + MaxOver)

AmountIdle ==
    apc = "off" /\ number = 0 /\ packed = <<>> /\ val = 0

InitAmount ==
    /\ apc = "start"
    /\ number \in Numbers
    /\ packed = <<>>
    /\ val = 0

Pack ==
    /\ apc = "start"
    /\ packed' = pack_comp3(number, DefaultWidth)
    /\ apc' = "packed"
    /\ UNCHANGED <<number, val>>
    /\ UNCHANGED <<recordVars, streamVars, appVars, uploadVars, temp_upload>>

Unpack ==
    /\ apc = "packed"
    /\ ~unpack_raises(packed)
    /\ val' = unpack_comp3(packed)
    /\ apc' = "unpacked"
    /\ UNCHANGED <<number, packed>>
    /\ UNCHANGED <<recordVars, streamVars, appVars, uploadVars, temp_upload>>

(***************************************************************************)
(* One record: create_ebcdic_record(rec), then the reader's decode of the  *)
(* first rec_len bytes of what it returned.                                *)
(***************************************************************************)

MaxEdge == 1

\* characters that matter at the ends of a value: a space, a letter, and
\* U+0141, which cp037 has no byte for
EdgeChars == {32, 66, 321}

Edges == UNION {[1..n -> EdgeChars] : n \in 0..MaxEdge}

\* values of every shape around a field of w characters: short, exactly w,
\* and up to MaxOver characters too long, each with every edge
Texts(w) ==
    {pre \o Repeat(65, k) \o suf :
        pre \in Edges, suf \in Edges, k \in {0} \cup {w + o : o \in (-2)..MaxOver}}

\* the fixture of the end-to-end test: ("1","Alice",100,"CONFIRM: ok"),
\* ("2","SRV-DB-01",-50,"ERROR: disk fail"), ("3","Bob",9999,"AUDIT: passed")
Fixture ==
    << [id |-> <<49>>, name |-> <<65, 108, 105, 99, 101>>, amount |-> 100,
        text |-> <<67, 79, 78, 70, 73, 82, 77, 58, 32, 111, 107>>],
       [id |-> <<50>>, name |-> <<83, 82, 86, 45, 68, 66, 45, 48, 49>>, amount |-> -50,
        text |-> <<69, 82, 82, 79, 82, 58, 32, 100, 105, 115, 107, 32, 102, 97, 105, 108>>],
       [id |-> <<51>>, name |-> <<66, 111, 98>>, amount |-> 9999,
        text |-> <<65, 85, 68, 73, 84, 58, 32, 112, 97, 115, 115, 101, 100>>] >>

\* a few values of a field of w characters: empty, a fixture value, one with
\* a leading space, exactly w, too long
Plain(w, fix) ==
    {<<>>, fix, <<32, 65>>} \cup {Repeat(65, w + o) : o \in 0..MaxOver}

AmountSamples == {0, 100, -50, 99999, -99999, 100000}

Records ==
    [id : Texts(IdWidth),
     name : Plain(NameWidth, Fixture[1].name),
     amount : AmountSamples,
     text : Plain(LogWidth, Fixture[2].text)]

NoRecord == [id |-> <<>>, name |-> <<>>, amount |-> 0, text |-> <<>>]

RecordIdle ==
    spc = "off" /\ rec = NoRecord /\ out = <<>> /\ idField = <<>> /\ dec = NoRecord

InitRecord ==
    /\ spc = "start"
    /\ rec \in Records
    /\ out = <<>>
    /\ idField = <<>>
    /\ dec = NoRecord

Serialize ==
    /\ spc = "start"
    /\ IF RecordEncodable(rec)
       THEN /\ out' = create_ebcdic_record(rec.id, rec.name, rec.amount, rec.text)
            /\ idField' = encode_field(rec.id, IdWidth)
            /\ spc' = "encoded"
       ELSE /\ spc' = "raised"
            /\ UNCHANGED <<out, idField>>
    /\ UNCHANGED <<rec, dec>>
    /\ UNCHANGED <<amountVars, streamVars, appVars, uploadVars, temp_upload>>

\* the reader's f.read(rec_len) on these bytes, and its try block
Deserialize ==
    /\ spc = "encoded"
    /\ Len(out) >= rec_len
    /\ LET chunk == Slice(out, 0, rec_len)
       IN  IF decode_raises(chunk)
           THEN spc' = "skipped" /\ UNCHANGED dec
           ELSE spc' = "decoded" /\ dec' = decode_chunk(chunk)
    /\ UNCHANGED <<rec, out, idField>>
    /\ UNCHANGED <<amountVars, streamVars, appVars, uploadVars, temp_upload>>

(***************************************************************************)
(* A stream: a writer loop (dataframe_to_dat of app.py, or the CLI of      *)
(* generator.py that writes the file record by record), the file at rest,  *)
(* and parse_mainframe_file reading it back.                               *)
(***************************************************************************)

MaxRows == 3

\* rows dataframe_to_dat may be handed: the fixture, an in-bounds record
\* whose name starts with a space, and one whose name cp037 cannot encode
SpacedRow == [id |-> <<52>>, name |-> <<32, 66, 111, 98>>, amount |-> 7,
              text |-> <<65>>]

BadName == <<321, 117, 107, 97, 115, 122>>

BadRow == [id |-> <<53>>, name |-> BadName, amount |-> 1, text |-> <<65>>]

Rows == {Fixture[i] : i \in 1..Len(Fixture)} \cup {SpacedRow, BadRow}

\* generate_record(i) of the CLI: the id is str(i), the name comes from
\* _system_name() or fake.name(), the amount from random.randint(100, 9999),
\* the text from generate_log (printable ASCII, at most 50 characters)
GenNames == {Fixture[2].name, BadName}

GenAmounts == {100, 9999}

GenTexts == {Fixture[3].text}

generate_record(i) ==
    [id : {[j \in 1..Len(str(i)) |-> 48 + str(i)[j]]},
     name : GenNames, amount : GenAmounts, text : GenTexts]

Writers == {"dataframe_to_dat", "__main__"}

NoDamage == [kind |-> "none", at |-> 0]

StreamIdle ==
    /\ writer = "dataframe_to_dat" /\ wpc = "off" /\ rows = <<>> /\ buf = <<>>
    /\ ret = <<>> /\ file = <<>> /\ damage = NoDamage
    /\ rpc = "off" /\ pos = 0 /\ records = <<>> /\ diag = 0

\* dataframe_to_dat starts with an empty bytearray; the CLI opens the file
\* with "wb", which empties it.
InitStream ==
    /\ writer \in Writers
    /\ wpc = "writing"
    /\ rows = <<>>
    /\ buf = <<>>
    /\ ret = <<>>
    /\ file = <<>>
    /\ damage = NoDamage
    /\ rpc = "idle"
    /\ pos = 0
    /\ records = <<>>
    /\ diag = 0

\* One turn of the writer's loop on the next row r: generate_record(i) in the
\* CLI, a row of df in dataframe_to_dat (whose str(...) and int(...) leave a
\* str id, name, text and an int amount as they are).  An exception of
\* create_ebcdic_record leaves the loop: dataframe_to_dat returns nothing,
\* the CLI's with block closes the file with what was written.
WriteRow(r) ==
    /\ wpc = "writing"
    /\ Len(rows) < MaxRows
    /\ r \in (IF writer = "dataframe_to_dat" THEN Rows ELSE generate_record(Len(rows)))
    /\ rows' = Append(rows, r)
    /\ IF RecordEncodable(r)
       THEN LET record == create_ebcdic_record(r.id, r.name, r.amount, r.text)
            IN  /\ wpc' = wpc
                /\ IF writer = "dataframe_to_dat"
                   THEN buf' = buf \o record /\ file' = file
                   ELSE file' = file \o record /\ buf' = buf
       ELSE wpc' = "raised" /\ UNCHANGED <<buf, file>>
    /\ UNCHANGED <<writer, ret, damage, rpc, pos, records, diag>>
    /\ UNCHANGED <<amountVars, recordVars, appVars, uploadVars, temp_upload>>

\* The loop is over.  dataframe_to_dat returns bytes(buf), which the
\* download button hands out as the .dat file; the CLI stops after its fixed
\* number of records (MaxRows here) and the file is closed.
FinishWrite ==
    /\ wpc = "writing"
    /\ IF writer = "dataframe_to_dat"
       THEN ret' = <<buf>> /\ file' = buf
       ELSE Len(rows) = MaxRows /\ UNCHANGED <<ret, file>>
    /\ wpc' = "returned"
    /\ UNCHANGED <<writer, rows, buf, damage, rpc, pos, records, diag>>
    /\ UNCHANGED <<amountVars, recordVars, appVars, uploadVars, temp_upload>>

Chunks(f) == Len(f) \div rec_len

ChunkAt(f, i) == Slice(f, rec_len * i, rec_len * (i + 1))

\* the byte of the amount field that holds digit position p (1..5), and the
\* byte with that nibble set to x
NibbleByte(p) == 30 + (p + 1) \div 2

SetNibble(b, p, x) == IF p % 2 = 1 THEN 16 * x + (b % 16) ELSE 16 * (b \div 16) + x

NonDigits == 10..15

\* The dump the CLI wrote is damaged at rest, before it is read: a
\* non-digit nibble lands in a digit position of the amount field of chunk i.
CorruptNibble(i, p, x) ==
    /\ writer = "__main__" /\ wpc = "returned" /\ rpc = "idle"
    /\ damage.kind = "none"
    /\ i \in 0..(Chunks(file) - 1)
    /\ LET at == rec_len * i + NibbleByte(p)
       IN  file' = [file EXCEPT ![at] = SetNibble(file[at], p, x)]
    /\ damage' = [kind |-> "corrupt", at |-> i]
    /\ UNCHANGED <<writer, wpc, rows, buf, ret, rpc, pos, records, diag>>
    /\ UNCHANGED <<amountVars, recordVars, appVars, uploadVars, temp_upload>>

\* The dump loses its tail: its first n bytes are left.
Truncate(n) ==
    /\ writer = "__main__" /\ wpc = "returned" /\ rpc = "idle"
    /\ damage.kind = "none"
    /\ n < Len(file)
    /\ file' = SubSeq(file, 1, n)
    /\ damage' = [kind |-> "truncated", at |-> n]
    /\ UNCHANGED <<writer, wpc, rows, buf, ret, rpc, pos, records, diag>>
    /\ UNCHANGED <<amountVars, recordVars, appVars, uploadVars, temp_upload>>

\* parse_mainframe_file opens the file: the one a finished writer left, or
\* the one the CLI left behind when it raised.
OpenFile ==
    /\ rpc = "idle"
    /\ wpc = "returned" \/ (wpc = "raised" /\ writer = "__main__")
    /\ rpc' = "reading"
    /\ pos' = 0
    /\ records' = <<>>
    /\ diag' = 0
    /\ UNCHANGED <<writer, wpc, rows, buf, ret, file, damage>>
    /\ UNCHANGED <<amountVars, recordVars, appVars, uploadVars, temp_upload>>

\* the loop without its `if len(chunk) < rec_len: break`
IsPartialNever(chunk) == FALSE

IsPartial(chunk) == Len(chunk) < rec_len

\* the loop putting each record in front of the list instead of at its end
ReadChunkPrepend ==
    /\ rpc = "reading"
    /\ LET chunk == Slice(file, pos, pos + rec_len)
       IN  /\ pos' = pos + Len(chunk)
           /\ IF chunk = <<>> \/ Len(chunk) < rec_len
              THEN rpc' = "done" /\ UNCHANGED <<records, diag>>
              ELSE /\ rpc' = rpc
                   /\ IF decode_raises(chunk)
                      THEN diag' = diag + 1 /\ UNCHANGED records
                      ELSE records' = <<decode_chunk(chunk)>> \o records
                           /\ UNCHANGED diag
    /\ UNCHANGED <<writer, wpc, rows, buf, ret, file, damage>>
    /\ UNCHANGED <<amountVars, recordVars, appVars, uploadVars, temp_upload>>

\* One turn of `while chunk := f.read(rec_len)`.
ReadChunk ==
    /\ rpc = "reading"
    /\ LET chunk == Slice(file, pos, pos + rec_len)
       IN  /\ pos' = pos + Len(chunk)
           /\ IF chunk = <<>> \/ IsPartial(chunk)
              THEN rpc' = "done" /\ UNCHANGED <<records, diag>>
              ELSE /\ rpc' = rpc
                   /\ IF decode_raises(chunk)
                      THEN diag' = diag + 1 /\ UNCHANGED records
                      ELSE records' = Append(records, decode_chunk(chunk))
                           /\ UNCHANGED diag
    /\ UNCHANGED <<writer, wpc, rows, buf, ret, file, damage>>
    /\ UNCHANGED <<amountVars, recordVars, appVars, uploadVars, temp_upload>>

(***************************************************************************)
(* app.py: one browser session.  Every action below is one run of the      *)
(* script from top to bottom (including the run st.rerun() starts), set    *)
(* off by the widget the user touched.                                     *)
(***************************************************************************)

\* Python's None, and a value that is not None
None == <<>>

Some(x) == <<x>>

RECURSIVE Concat(_)
Concat(parts) == IF parts = <<>> THEN <<>> ELSE Head(parts) \o Concat(Tail(parts))

\* s.str.contains(w) for a pattern of plain letters; also `w in s`
Contains(s, w) == \E i \in 1..(Len(s) - Len(w) + 1) : SubSeq(s, i, i + Len(w) - 1) = w

\* dataframe_to_dat writing the row's PII_Count into the amount field
dataframe_to_dat_tagged(df) ==
    Concat([i \in 1..Len(df) |->
        create_ebcdic_record(df[i].id, df[i].name, df[i].PII_Count, df[i].text)])

dataframe_to_dat(df) ==
    Concat([i \in 1..Len(df) |->
        create_ebcdic_record(df[i].id, df[i].name, df[i].amount, df[i].text)])

\* parse_mainframe_file on a file of content f, read from offset at on
RECURSIVE read_chunks(_, _)
read_chunks(f, at) ==
    LET chunk == Slice(f, at, at + rec_len)
    IN  IF chunk = <<>> \/ IsPartial(chunk)
        THEN <<>>
        ELSE (IF decode_raises(chunk) THEN <<>> ELSE <<decode_chunk(chunk)>>)
             \o read_chunks(f, at + rec_len)

parse_mainframe_file(f) == read_chunks(f, 0)

\* pd.DataFrame(raw_records): the rows in order under the index 0, 1, 2, ...
DataFrame(raw_records) ==
    [i \in 1..Len(raw_records) |->
        [index |-> i - 1, id |-> raw_records[i].id, name |-> raw_records[i].name,
         amount |-> raw_records[i].amount, text |-> raw_records[i].text]]

\* the uploads a user may pick: the three-record dump, a two-record dump
\* ending in a partial record, and a copy of the first under another name
Files ==
    LET three == Concat([i \in 1..Len(Fixture) |->
                    create_ebcdic_record(Fixture[i].id, Fixture[i].name,
                                         Fixture[i].amount, Fixture[i].text)])
        two   == create_ebcdic_record(Fixture[3].id, Fixture[3].name,
                                      Fixture[3].amount, Fixture[3].text)
                 \o create_ebcdic_record(SpacedRow.id, Fixture[1].name,
                                         SpacedRow.amount, Fixture[1].text)
                 \o encode_field(Fixture[2].id, IdWidth)
    IN  <<three, two, three>>

\* hashlib.md5(file_bytes).hexdigest(): one digest per content, taken here
\* to be different for different contents
md5(file_bytes) ==
    CHOOSE i \in 1..Len(Files) :
        Files[i] = file_bytes /\ \A j \in 1..(i - 1) : Files[j] # file_bytes

\* parse_mainframe_file of each upload, worked out once
raw_records == [f \in 1..Len(Files) |-> parse_mainframe_file(Files[f])]

CLASS_LABELS == <<"important financial record", "system noise or junk log">>

\* top_score >= 0.50, with scores in hundredths
Threshold == 50

Scores == {Threshold - 1, Threshold}

\* how many entities the PII analyzer may report for one text
MaxPii == 1

\* what the two models answer for one text
Verdicts == [top_label : {CLASS_LABELS[i] : i \in 1..Len(CLASS_LABELS)},
             top_score : Scores, pii_hits : 0..MaxPii]

GreenTier == <<128994, 32, 71, 114, 101, 101, 110, 32, 40, 73, 109, 112, 111, 114, 116,
               97, 110, 116, 41>>

YellowTier == <<128993, 32, 89, 101, 108, 108, 111, 119, 32, 40, 81, 117, 97, 114, 97,
                110, 116, 105, 110, 101, 41>>

RedTier == <<128308, 32, 82, 101, 100, 32, 40, 65, 98, 115, 111, 108, 117, 116, 101, 32,
             82, 79, 84, 41>>

Green == <<71, 114, 101, 101, 110>>

Yellow == <<89, 101, 108, 108, 111, 119>>

Red == <<82, 101, 100>>

\* the loop body with the score test left out
assign_tier_any_score(v) ==
    IF v.top_label = CLASS_LABELS[1]
    THEN [Tier |-> GreenTier, PII_Count |-> 0]
    ELSE [Tier |-> IF v.pii_hits > 0 THEN YellowTier ELSE RedTier,
          PII_Count |-> v.pii_hits]

\* the body of the analysis loop for one row: STEP A, then STEP B
assign_tier(v) ==
    IF v.top_label = CLASS_LABELS[1] /\ v.top_score >= Threshold
    THEN [Tier |-> GreenTier, PII_Count |-> 0]
    ELSE [Tier |-> IF v.pii_hits > 0 THEN YellowTier ELSE RedTier,
          PII_Count |-> v.pii_hits]

\* f"SYSTEM-{idx + 1:03d}"
system_id(idx) ==
    <<83, 89, 83, 84, 69, 77, 45>>
    \o [j \in 1..Len(zfill(str(idx + 1), 3)) |-> 48 + zfill(str(idx + 1), 3)[j]]

\* the frame after the analysis: the Tier and PII_Count columns set, and the
\* name of every row that is not Green replaced
analysed(df, v) ==
    [i \in 1..Len(df) |->
        [index     |-> df[i].index,
         id        |-> df[i].id,
         name      |-> IF Contains(assign_tier(v[i]).Tier, Green)
                       THEN df[i].name ELSE system_id(i - 1),
         amount    |-> df[i].amount,
         text      |-> df[i].text,
         Tier      |-> assign_tier(v[i]).Tier,
         PII_Count |-> assign_tier(v[i]).PII_Count]]

IsGreen(row) == Contains(row.Tier, Green)

IsYellow(row) == Contains(row.Tier, Yellow)

IsRed(row) == Contains(row.Tier, Red)

green_df(df_all) == SelectSeq(df_all, IsGreen)

yellow_df(df_all) == SelectSeq(df_all, IsYellow)

red_df(df_all) == SelectSeq(df_all, IsRed)

green_n(df_all) == Len(green_df(df_all))

yellow_n(df_all) == Len(yellow_df(df_all))

red_n(df_all) == Len(red_df(df_all))

\* grams of CO2e per deleted record: energy_saved = red_n * 0.005 (kg)
GramsPerRecord == 5

energy_saved(df_all) == red_n(df_all) * GramsPerRecord

\* st.session_state as the script finds it, and as lines 168-175 make it
\* when it is empty
session_state ==
    [data |-> data, analysis_done |-> analysis_done, tx_hash |-> tx_hash,
     uploaded_file_id |-> uploaded_file_id]

init_session_state ==
    [data |-> None, analysis_done |-> FALSE, tx_hash |-> None, uploaded_file_id |-> None]

\* the test for a new file, forgetting only the frame and the analysis
detect_new_file_keeps_tx(ss, file_id) ==
    IF file_id # ss.uploaded_file_id
    THEN [data |-> None, analysis_done |-> FALSE, tx_hash |-> ss.tx_hash,
          uploaded_file_id |-> file_id]
    ELSE ss

\* `if file_id != st.session_state.uploaded_file_id:` and its four assignments
detect_new_file(ss, file_id) ==
    IF file_id # ss.uploaded_file_id
    THEN [data |-> None, analysis_done |-> FALSE, tx_hash |-> None,
          uploaded_file_id |-> file_id]
    ELSE ss

\* The top of the script, run with session state ss and the uploader holding
\* f: the upload step when there is a file, nothing otherwise.  The parse
\* reads the temp file back right after this run wrote it, so it returns
\* parse_mainframe_file(Files[f]).
script_top(ss, f) ==
    LET s1   == IF f = 0 THEN ss ELSE detect_new_file(ss, Some(md5(Files[f])))
        load == f # 0 /\ s1.data = None
    IN  /\ uploaded_file' = f
        /\ temp_upload' = IF load THEN Files[f] ELSE temp_upload
        /\ data' = IF load THEN Some(DataFrame(raw_records[f]))
                   ELSE s1.data
        /\ analysis_done' = s1.analysis_done
        /\ tx_hash' = s1.tx_hash
        /\ uploaded_file_id' = s1.uploaded_file_id

\* the part of the page below STEP 2 is drawn: a file is in the uploader and
\* the analysis is done
ResultsDrawn == uploaded_file # 0 /\ analysis_done

\* STEP 4 with the transaction sent: the banner and the downloads are drawn
ProofDrawn == ResultsDrawn /\ approved /\ tx_hash # None

\* the success banner's "{red_n} records deleted . {energy_saved:.4f} kg"
success_banner ==
    IF ProofDrawn
    THEN Some([deleted |-> red_n(data[1]), energy |-> energy_saved(data[1])])
    ELSE None

\* the bytes behind the "Download .dat" button
download_dat == IF ProofDrawn THEN Some(dataframe_to_dat(green_df(data[1]))) ELSE None

\* red_df.to_json(): the rows' values, column by column
to_json(df) ==
    [i \in 1..Len(df) |->
        <<df[i].index, df[i].id, df[i].name, df[i].amount, df[i].text, df[i].Tier,
          df[i].PII_Count>>]

\* hashlib.sha256(...).hexdigest(): one digest per content, taken here to be
\* different for different contents
sha256(content) == <<"sha256", content>>

\* the on-chain payload built from the frame the page shows
payload(df_all) ==
    [deleted_records |-> red_n(df_all),
     quarantined     |-> yellow_n(df_all),
     kept_records    |-> green_n(df_all),
     carbon_saved    |-> energy_saved(df_all),
     proof_hash      |-> sha256(to_json(red_df(df_all)))]

\* the answers the two models may give for the rows of the loaded frame
Answers == IF data = None THEN {} ELSE [1..Len(data[1]) -> Verdicts]

NoOp == [op |-> "none", outcome |-> "none"]

InitApp ==
    /\ uploaded_file = 0
    /\ uploaded_file_id = None
    /\ data = None
    /\ analysis_done = FALSE
    /\ tx_hash = None
    /\ approved = FALSE
    /\ verdicts = <<>>
    /\ last = NoOp

\* The user puts file f into the uploader (or replaces the one in it).
Upload(f) ==
    /\ f # uploaded_file
    /\ script_top(session_state, f)
    /\ approved' = (analysis_done' /\ approved)
    /\ verdicts' = IF data' = data THEN verdicts ELSE <<>>
    /\ last' = [op |-> "upload",
                outcome |-> IF Some(md5(Files[f])) # uploaded_file_id
                            THEN "new content" ELSE "same content"]
    /\ UNCHANGED <<amountVars, recordVars, streamVars, uploadVars>>

\* The user removes the file from the uploader: `if uploaded_file:` is false
\* and nothing below it runs.
RemoveFile ==
    /\ uploaded_file # 0
    /\ script_top(session_state, 0)
    /\ approved' = FALSE
    /\ last' = [op |-> "remove", outcome |-> "ok"]
    /\ UNCHANGED verdicts
    /\ UNCHANGED <<amountVars, recordVars, streamVars, uploadVars>>

\* "Run Analysis" on a frame not yet analysed; v is what the classifier and
\* the PII analyzer answer for each row's text.  The st.rerun() that follows
\* finds the same file and a loaded frame.
RunAnalysis ==
    /\ uploaded_file # 0
    /\ ~analysis_done
    /\ \E v \in Answers :
          /\ data' = Some(analysed(data[1], v))
          /\ verdicts' = v
    /\ analysis_done' = TRUE
    /\ last' = [op |-> "analysis", outcome |-> "ok"]
    /\ UNCHANGED <<uploaded_file, uploaded_file_id, tx_hash, approved, temp_upload>>
    /\ UNCHANGED <<amountVars, recordVars, streamVars, uploadVars>>

\* The user ticks or unticks the sign-off checkbox.
Approve ==
    /\ ResultsDrawn
    /\ approved' = ~approved
    /\ last' = [op |-> "approve", outcome |-> IF approved THEN "unticked" ELSE "ticked"]
    /\ UNCHANGED <<uploaded_file, uploaded_file_id, data, analysis_done, tx_hash, verdicts,
                   temp_upload>>
    /\ UNCHANGED <<amountVars, recordVars, streamVars, uploadVars>>

\* how a press of "Delete Red & Mint Proof" can go: the key field is empty;
\* from_key rejects the key; gas_price or get_transaction_count fails (both
\* outside the try); signing or sending fails (inside it); the transaction
\* is sent
DeleteOutcomes == {"no key", "bad key", "rpc error", "send error", "sent"}

\* "Delete Red & Mint Proof".  With a key, the frame is replaced first; the
\* transaction is named by the payload it carries.
DeleteRedAndMint(outcome) ==
    /\ ResultsDrawn /\ approved /\ tx_hash = None
    /\ IF outcome = "no key"
       THEN UNCHANGED <<data, tx_hash>>
       ELSE /\ data' = Some(green_df(data[1]) \o yellow_df(data[1]))
            /\ tx_hash' = IF outcome = "sent" THEN Some(payload(data[1])) ELSE tx_hash
    /\ last' = [op |-> "delete", outcome |-> outcome]
    /\ UNCHANGED <<uploaded_file, uploaded_file_id, analysis_done, approved, verdicts,
                   temp_upload>>
    /\ UNCHANGED <<amountVars, recordVars, streamVars, uploadVars>>

\* "Start Over": st.session_state.clear() and st.rerun().  The uploader's
\* file is the browser's: the new run finds the uploader either empty or
\* still holding it.
StartOver(f) ==
    /\ f \in {0, uploaded_file}
    /\ script_top(init_session_state, f)
    /\ approved' = FALSE
    /\ verdicts' = <<>>
    /\ last' = [op |-> "start over", outcome |-> IF f = 0 THEN "uploader empty"
                                                  ELSE "uploader kept"]
    /\ UNCHANGED <<amountVars, recordVars, streamVars, uploadVars>>

(***************************************************************************)
(* app.py: the upload step of two sessions.  Each session's script runs in *)
(* a thread of its own, and both use the one temp_upload.dat.              *)
(***************************************************************************)

Sessions == {1, 2}

IdleSession == [pc |-> "idle", uploaded_file |-> 0, data |-> None]

InitUpload == sessions = [s \in Sessions |-> IdleSession]

\* Session s gets file f from its user; its run finds a new file_id, sets
\* data to None and enters `if st.session_state.data is None:`.
PickFile(s, f) ==
    /\ sessions[s].pc \in {"idle", "decoded"}
    /\ f # sessions[s].uploaded_file
    /\ sessions' = [sessions EXCEPT ![s] = [pc |-> "opened", uploaded_file |-> f,
                                            data |-> None]]
    /\ UNCHANGED <<amountVars, recordVars, streamVars, appVars, temp_upload>>

\* with open("temp_upload.dat", "wb") as f: f.write(file_bytes)
WriteTemp(s) ==
    /\ sessions[s].pc = "opened"
    /\ temp_upload' = Files[sessions[s].uploaded_file]
    /\ sessions' = [sessions EXCEPT ![s].pc = "written"]
    /\ UNCHANGED <<amountVars, recordVars, streamVars, appVars>>

\* raw_records = parse_mainframe_file("temp_upload.dat"), then
\* st.session_state.data = pd.DataFrame(raw_records)
ParseTemp(s) ==
    /\ sessions[s].pc = "written"
    /\ sessions' = [sessions EXCEPT
                       ![s].pc = "decoded",
                       ![s].data = Some(DataFrame(parse_mainframe_file(temp_upload)))]
    /\ UNCHANGED <<amountVars, recordVars, streamVars, appVars, temp_upload>>

(***************************************************************************)
(* The specifications                                                      *)
(***************************************************************************)

\* the stream
\* no session has started and temp_upload.dat has nothing in it
AppIdle == InitApp /\ InitUpload /\ temp_upload = <<>>

Init == AmountIdle /\ RecordIdle /\ InitStream /\ AppIdle

Next ==
    \/ \E r \in Rows \cup UNION {generate_record(i) : i \in 0..(MaxRows - 1)} : WriteRow(r)
    \/ FinishWrite
    \/ \E i \in 0..(MaxRows - 1), p \in 1..(2 * DefaultWidth - 1), x \in NonDigits :
          CorruptNibble(i, p, x)
    \/ \E n \in 1..(rec_len * MaxRows) : Truncate(n)
    \/ OpenFile
    \/ ReadChunk

Spec == Init /\ [][Next]_vars

\* one record
InitOne == AmountIdle /\ InitRecord /\ StreamIdle /\ AppIdle

NextOne == Serialize \/ Deserialize

SpecRecord == InitOne /\ [][NextOne]_vars

\* the amount codec
InitAmt == InitAmount /\ RecordIdle /\ StreamIdle /\ AppIdle

NextAmt == Pack \/ Unpack

SpecAmount == InitAmt /\ [][NextAmt]_vars

\* one session of the app
InitSession == AmountIdle /\ RecordIdle /\ StreamIdle /\ AppIdle

NextApp ==
    \/ \E f \in 1..Len(Files) : Upload(f)
    \/ RemoveFile
    \/ RunAnalysis
    \/ Approve
    \/ \E outcome \in DeleteOutcomes : DeleteRedAndMint(outcome)
    \/ \E f \in 0..Len(Files) : StartOver(f)

SpecApp == InitSession /\ [][NextApp]_vars

\* two sessions uploading
NextUpload ==
    \/ \E s \in Sessions, f \in 1..Len(Files) : PickFile(s, f)
    \/ \E s \in Sessions : WriteTemp(s)
    \/ \E s \in Sessions : ParseTemp(s)

SpecUpload == InitSession /\ [][NextUpload]_vars

(***************************************************************************)
(* The properties                                                          *)
(***************************************************************************)

Serialized == spc \in {"encoded", "decoded", "skipped"}

\* C1: whatever the lengths of id, name and text and whatever the amount,
\* a record that create_ebcdic_record serializes is exactly 83 bytes long
\* (and so n records are 83*n bytes, record i at offset 83*i).
C1_FixedWidth == Serialized => Len(out) = rec_len

\* the widths and the magnitude the layout gives the four fields
InBounds(r) ==
    /\ Len(r.id) <= IdWidth
    /\ Len(r.name) <= NameWidth
    /\ Len(r.text) <= LogWidth
    /\ abs(r.amount) < Limit(DefaultWidth)

\* neither begins nor ends with a whitespace character
Clean(s) == s = <<>> \/ (~IsSpace(s[1]) /\ ~IsSpace(s[Len(s)]))

CleanRecord(r) == Clean(r.id) /\ Clean(r.name) /\ Clean(r.text)

\* C2, as stated: every in-bounds record comes back equal in all four
\* fields from the decode of the 83 bytes create_ebcdic_record made of it.
C2_RoundTripAnyInBounds == (spc = "decoded" /\ InBounds(rec)) => dec = rec

\* C2, amended: every in-bounds record whose id, name and text neither begin
\* nor end with whitespace is serialized to 83 bytes and comes back equal in
\* all four fields.
C2_RoundTrip ==
    (InBounds(rec) /\ CleanRecord(rec)) =>
        /\ Serialized => Len(out) = rec_len
        /\ spc # "skipped"
        /\ spc = "decoded" => dec = rec

\* a clean record that fills all three text fields is decoded and equal
C2_Witness ==
    /\ spc = "decoded"
    /\ InBounds(rec) /\ CleanRecord(rec)
    /\ Len(rec.id) = IdWidth /\ Len(rec.name) = NameWidth /\ Len(rec.text) = LogWidth
    /\ rec.amount = -99999
    /\ dec = rec

Corrupted == damage.kind = "corrupt"

\* the records of every chunk of f but chunk c, in file order
RecordsWithout(f, c) ==
    [j \in 1..(Chunks(f) - 1) |-> decode_chunk(ChunkAt(f, IF j - 1 < c THEN j - 1 ELSE j))]

\* C3: when one chunk of the stream has a non-digit nibble in its amount
\* field, parse_mainframe_file leaves out exactly that record, reports
\* exactly one diagnostic, and returns every other record in file order.
C3_SkipAndContinue ==
    (rpc = "done" /\ Corrupted) =>
        /\ diag = 1
        /\ records = RecordsWithout(file, damage.at)

\* C4: pack_comp3(value, width) fails, and returns no bytes, whenever
\* |value| >= 10^(2*width-1), so pack_comp3(100000) and pack_comp3(-100000)
\* fail at the default width: whenever pack_comp3 has returned, the value is
\* below 10^5.
C4_RangeRejection ==
    apc \in {"packed", "unpacked"} => abs(number) < Limit(DefaultWidth)

\* C5: an id longer than 10 characters is cut to its first 10 characters
\* before it is encoded: the id field is 10 bytes and decodes to them.
C5_TruncationOnEncode ==
    (Serialized /\ Len(rec.id) > IdWidth) =>
        /\ Len(idField) = IdWidth
        /\ strip(decode_cp037(idField)) = strip(SubSeq(rec.id, 1, IdWidth))

\* C6: unpack_comp3(pack_comp3(v)) = v for every v in -99999..99999 at the
\* default width, and 0 is packed with sign nibble 0xC and comes back as 0.
C6_SignFidelity ==
    (apc = "unpacked" /\ abs(number) < Limit(DefaultWidth)) =>
        /\ val = number
        /\ number = 0 => (packed[Len(packed)] % 16 = 12 /\ val >= 0)

\* the most negative amount went through pack_comp3 and unpack_comp3
C6_Witness ==
    apc = "unpacked" /\ number = -99999 /\ val = -99999

TailCut == damage.kind = "truncated" /\ Len(file) % rec_len # 0

\* C7: of a file of 83*N + k bytes, 0 < k < 83, parse_mainframe_file returns
\* exactly the N records of its whole chunks, the k bytes left give neither a
\* record nor a diagnostic, and the scan ends: every turn of the loop moves
\* the offset on by a whole chunk or stops at the end of the file.
C7_TruncatedTail ==
    TailCut =>
        /\ rpc = "reading" =>
              /\ pos = rec_len * Len(records)
              /\ pos <= Len(file)
              /\ diag = 0
        /\ rpc = "done" =>
              /\ pos = Len(file)
              /\ diag = 0
              /\ records = [j \in 1..Chunks(file) |-> decode_chunk(ChunkAt(file, j - 1))]

\* a dump cut 30 bytes into its third record (before its amount) was read
C7_Witness ==
    /\ rpc = "done" /\ TailCut
    /\ Len(file) = 2 * rec_len + 30
    /\ Len(records) = 2
    /\ diag = 0

ReadBack == rpc = "done" /\ wpc = "returned" /\ damage.kind = "none"

\* C8, as stated: any sequence of in-bounds records, written in order and
\* read back with parse_mainframe_file, comes back the same, in the same order.
C8_StreamRoundTripAnyInBounds ==
    (ReadBack /\ \A i \in 1..Len(rows) : InBounds(rows[i])) => records = rows

\* C8, amended: any sequence of in-bounds records whose id, name and text
\* neither begin nor end with whitespace, written in order and read back
\* with parse_mainframe_file, comes back the same, in the same order; the
\* three records of the fixture do.
C8_StreamRoundTrip ==
    (ReadBack /\ \A i \in 1..Len(rows) : InBounds(rows[i]) /\ CleanRecord(rows[i])) =>
        records = rows

\* the fixture was written by dataframe_to_dat and read back
C8_Witness ==
    ReadBack /\ writer = "dataframe_to_dat" /\ rows = Fixture /\ records = Fixture

\* the amount a field decodes to when each non-digit nibble in a digit
\* position counts as the digit 0
ZeroedValue(raw) ==
    LET h == hex(raw)
        v == int([i \in 1..(Len(h) - 1) |-> IF IsDigit(h[i]) THEN h[i] ELSE 0])
    IN  IF h[Len(h)] = 13 THEN -v ELSE v

\* C9: an amount field with a non-digit nibble in a digit position is either
\* rejected (its record is not returned) or decoded with each such nibble
\* taken as the digit 0; unpack_comp3 gives no other value.
C9_CorruptNibblePolicy ==
    (rpc = "done" /\ Corrupted) =>
        \/ Len(records) = Chunks(file) - 1
        \/ /\ Len(records) = Chunks(file)
           /\ records[damage.at + 1].amount
                 = ZeroedValue(Slice(ChunkAt(file, damage.at), 30, 33))

\* C10: when a record fails to serialize the write stops there and leaves
\* no partial output: no byte string is returned and no bytes are left in
\* the destination file.
C10_WriterFailFast ==
    wpc = "raised" => (ret = <<>> /\ file = <<>>)

\* the i-th of the 2*DefaultWidth-1 zero-padded decimal digits of |v|
DecimalDigit(v, i) == (abs(v) \div (10 ^ (2 * DefaultWidth - 1 - i))) % 10

\* C12: for every v with |v| < 10^5, pack_comp3(v) is exactly 3 bytes; its
\* first five nibbles are the zero-padded decimal digits of |v| in order,
\* high nibble first, and its last nibble is 0xC when v >= 0, 0xD when v < 0.
C12_PackedLayout ==
    (apc \in {"packed", "unpacked"} /\ abs(number) < Limit(DefaultWidth)) =>
        /\ Len(packed) = DefaultWidth
        /\ \A i \in 1..(2 * DefaultWidth - 1) : hex(packed)[i] = DecimalDigit(number, i)
        /\ hex(packed)[2 * DefaultWidth] = (IF number >= 0 THEN 12 ELSE 13)

\* -12345 was packed: 0x12 0x34 0x5D
C12_Witness ==
    apc = "packed" /\ number = -12345 /\ packed = <<18, 52, 93>>

\* the same rows carrying other tags: another tier, one more PII detection
Retagged(df) ==
    [i \in 1..Len(df) |->
        [df[i] EXCEPT !.Tier = IF @ = RedTier THEN YellowTier ELSE RedTier,
                      !.PII_Count = @ + 1]]

\* the same rows with nothing but the four fields of a record
Untagged(df) ==
    [i \in 1..Len(df) |->
        [id |-> df[i].id, name |-> df[i].name, amount |-> df[i].amount,
         text |-> df[i].text]]

\* C11: the bytes dataframe_to_dat produces depend only on the id, name,
\* amount and text of each row: the download of the Green rows is the same
\* bytes as for those rows under other Tier and PII_Count values, and as for
\* those rows without any added column.
C11_TagsNotPersisted ==
    ProofDrawn =>
        /\ download_dat = Some(dataframe_to_dat(Retagged(green_df(data[1]))))
        /\ download_dat = Some(dataframe_to_dat(Untagged(green_df(data[1]))))

\* the download of two Green rows is drawn, a Yellow row beside them
C11_Witness ==
    /\ ProofDrawn
    /\ green_n(data[1]) = 2
    /\ yellow_n(data[1]) = 1
    /\ Len(download_dat[1]) = 2 * rec_len

\* what the two models answered for this row's text
VerdictOf(row) == verdicts[row.index + 1]

Important(v) == v.top_label = CLASS_LABELS[1] /\ v.top_score >= Threshold

\* how many of the three tiers the row is counted in
TierCount(row) ==
    (IF IsGreen(row) THEN 1 ELSE 0) + (IF IsYellow(row) THEN 1 ELSE 0)
    + (IF IsRed(row) THEN 1 ELSE 0)

\* C13: after Run Analysis every record carries exactly one tier: Green iff
\* the top label is "important financial record" with score >= 0.50 (and
\* then PII_Count is 0), otherwise Yellow iff the PII scan found an entity,
\* otherwise Red; and green_n + yellow_n + red_n is the number of records.
C13_TierAssignment ==
    analysis_done =>
        /\ \A i \in 1..Len(data[1]) :
              LET row == data[1][i]
                  v   == VerdictOf(row)
              IN  /\ TierCount(row) = 1
                  /\ IsGreen(row) <=> Important(v)
                  /\ IsGreen(row) => row.PII_Count = 0
                  /\ IsYellow(row) <=> (~Important(v) /\ v.pii_hits > 0)
                  /\ IsRed(row) <=> (~Important(v) /\ v.pii_hits = 0)
        /\ green_n(data[1]) + yellow_n(data[1]) + red_n(data[1]) = Len(data[1])

\* the analysis just ran on three records and gave one of each tier, the
\* Red one on a top label "important financial record" scored under 0.50
C13_Witness ==
    /\ last.op = "analysis"
    /\ green_n(data[1]) = 1 /\ yellow_n(data[1]) = 1 /\ red_n(data[1]) = 1
    /\ \E i \in 1..Len(data[1]) :
          /\ IsRed(data[1][i])
          /\ verdicts[i].top_label = CLASS_LABELS[1]

\* the latest operation was a press of "Delete Red & Mint Proof" whose
\* transaction could not be built, signed or sent
DeleteFailed ==
    last.op = "delete" /\ last.outcome \in {"bad key", "rpc error", "send error"}

\* C14: if building, signing or broadcasting the transaction fails after
\* "Delete Red & Mint Proof" is pressed, the session's record set is
\* unchanged (the Red records are still there) and tx_hash stays unset.
C14_DeleteAtomic ==
    [][DeleteFailed' => (data' = data /\ tx_hash' = None)]_vars

\* C15: when two sessions upload and their writes and parses of
\* temp_upload.dat interleave, the frame each session builds is the one
\* decoded from the bytes that session itself uploaded.
C15_UploadIsolation ==
    \A s \in Sessions :
        sessions[s].pc = "decoded" =>
            sessions[s].data = Some(DataFrame(raw_records[sessions[s].uploaded_file]))

\* the row has a Tier column, holding one of the three tiers
HasTier(row) == "Tier" \in DOMAIN row /\ row.Tier \in {GreenTier, YellowTier, RedTier}

\* the latest operation put a file of new content into the uploader
UploadedNew == last.op = "upload" /\ last.outcome = "new content"

\* C16: after any sequence of session operations, tx_hash is set only if
\* analysis_done is true and data is loaded; analysis_done is true only if
\* data is loaded and every record has a tier; and an upload whose content
\* hash differs from uploaded_file_id leaves analysis_done false, tx_hash
\* unset and data freshly decoded from the new file.
C16_WorkflowInvariant ==
    /\ tx_hash # None => (analysis_done /\ data # None)
    /\ analysis_done => (data # None /\ \A i \in 1..Len(data[1]) : HasTier(data[1][i]))
    /\ UploadedNew =>
          /\ ~analysis_done
          /\ tx_hash = None
          /\ uploaded_file_id = Some(md5(Files[uploaded_file]))
          /\ data = Some(DataFrame(raw_records[uploaded_file]))

\* the two-record dump has just replaced another upload: its frame of two
\* rows, not analysed, is the session's data
C16_Witness ==
    /\ UploadedNew
    /\ uploaded_file = 2
    /\ Len(temp_upload) > 2 * rec_len
    /\ data # None /\ Len(data[1]) = 2
    /\ ~analysis_done /\ tx_hash = None /\ verdicts = <<>>

\* C17: once tx_hash is set, the number of deleted records and the CO2
\* figure the success banner shows are the number of Red records the delete
\* removed, written to the payload as deleted_records, and the figure
\* written as carbon_saved_kg.
C17_ReportedCount ==
    success_banner # None =>
        /\ success_banner[1].deleted = tx_hash[1].deleted_records
        /\ success_banner[1].energy = tx_hash[1].carbon_saved

====
